---- MODULE Spec2Model ----
(***************************************************************************)
(* Parser combinators (combinators.ts, simple.ts and their copy main.ts).  *)
(*                                                                         *)
(* A JavaScript string is a sequence of one-character strings.  A         *)
(* JavaScript value is a tagged record, a parser object is a record with   *)
(* the fields of its class plus a tag naming the class, and a closure      *)
(* given to map / pred / flat_map is a record naming the function and      *)
(* holding what it captured.                                               *)
(***************************************************************************)
EXTENDS Integers, Sequences, FiniteSets, TLC

VARIABLES parser, input, result, pc, cur, acc

vars == <<parser, input, result, pc, cur, acc>>

(***************************************************************************)
(* Bounds of the model.                                                    *)
(***************************************************************************)
\* longest enumerated input string
MaxLen == 3
\* number of elements after which Array.prototype.push gives up (the
\* engine's limit is 2^32 - 1 elements, or the heap); always > MaxLen + 8
MaxArrayLength == 12

(***************************************************************************)
(* JavaScript values.                                                      *)
(***************************************************************************)
Undefined == [t |-> "undefined"]
Null == [t |-> "null"]
Str(s) == [t |-> "string", s |-> s]
Arr(xs) == [t |-> "array", xs |-> xs]
Num(n) == [t |-> "number", n |-> n]
Bool(b) == [t |-> "boolean", b |-> b]
Msg(m) == [t |-> "message", m |-> m]
\* an object literal {} filled by jsonData[key] = value: its own keys to
\* their values, and its prototype, Object.prototype as long as no
\* assignment to the key __proto__ has replaced it
Obj(fields) ==
  [t |-> "object", fields |-> fields, proto |-> [t |-> "Object.prototype"]]
\* the syntax tree classes of pl0.ts
LiteralExpr(literal) == [t |-> "LiteralExpr", literal |-> literal]
IdentExpr(name) == [t |-> "IdentExpr", name |-> name]
BinOpExpr(left, op, right) ==
  [t |-> "BinOpExpr", left |-> left, op |-> op, right |-> right]
UnaryOpExpr(op, e) == [t |-> "UnaryOpExpr", op |-> op, e |-> e]
UnaryCondition(op, expr) == [t |-> "UnaryCondition", op |-> op, expr |-> expr]
BinCondition(left, op, right) ==
  [t |-> "BinCondition", left |-> left, op |-> op, right |-> right]

\* the values that the operators || and ! treat as false
IsFalsy(v) == v \in {Undefined, Null, Str(<<>>), Num(0), Bool(FALSE)}

\* enum Result { Ok, Error }
Ok == "Ok"
Error == "Error"

\* interface ParseResult<T>: an optional field that is not set reads as undefined
ParseResult(state, remainder, value, error) ==
  [state |-> state, remainder |-> remainder, value |-> value, error |-> error]

\* what a caller observes when parse() does not return: the exception
\* unwinds every enclosing parse() as well
Thrown == [state |-> "Thrown", remainder |-> <<>>, value |-> Undefined,
           error |-> Msg("RangeError: Invalid array length")]

\* the same for a method call on undefined
ThrownTypeError == [state |-> "Thrown", remainder |-> <<>>, value |-> Undefined,
                    error |-> Msg("TypeError: ch is undefined")]

\* no call made yet
NoResult == [state |-> "None", remainder |-> <<>>, value |-> Undefined,
             error |-> Undefined]

(***************************************************************************)
(* Strings.                                                                *)
(***************************************************************************)
\* String.prototype.codePointAt(0) of a one-character string
CodePointAt(ch) ==
  CASE ch = " " -> 32
    [] ch = "\"" -> 34
    [] ch = "#" -> 35
    [] ch = "'" -> 39
    [] ch = "(" -> 40
    [] ch = ")" -> 41
    [] ch = "*" -> 42
    [] ch = "+" -> 43
    [] ch = "," -> 44
    [] ch = "-" -> 45
    [] ch = "/" -> 47
    [] ch = "0" -> 48
    [] ch = "1" -> 49
    [] ch = "9" -> 57
    [] ch = ":" -> 58
    [] ch = "<" -> 60
    [] ch = "=" -> 61
    [] ch = ">" -> 62
    [] ch = "H" -> 72
    [] ch = "W" -> 87
    [] ch = "[" -> 91
    [] ch = "]" -> 93
    [] ch = "_" -> 95
    [] ch = "a" -> 97
    [] ch = "d" -> 100
    [] ch = "e" -> 101
    [] ch = "f" -> 102
    [] ch = "h" -> 104
    [] ch = "l" -> 108
    [] ch = "o" -> 111
    [] ch = "p" -> 112
    [] ch = "r" -> 114
    [] ch = "s" -> 115
    [] ch = "t" -> 116
    [] ch = "u" -> 117
    [] ch = "w" -> 119
    [] ch = "{" -> 123
    [] ch = "}" -> 125

\* String.prototype.slice(from) and slice(0, to)
SliceFrom(s, from) == SubSeq(s, from + 1, Len(s))
SliceTo(s, to) == SubSeq(s, 1, IF to < Len(s) THEN to ELSE Len(s))

\* the relational operators on strings: lexicographic on code units
RECURSIVE StrLessEq(_, _)
StrLessEq(a, b) ==
  IF a = <<>> THEN TRUE
  ELSE IF b = <<>> THEN FALSE
  ELSE IF CodePointAt(Head(a)) < CodePointAt(Head(b)) THEN TRUE
  ELSE IF CodePointAt(Head(a)) > CodePointAt(Head(b)) THEN FALSE
  ELSE StrLessEq(Tail(a), Tail(b))

\* isAlphabetic(ch) of simple.ts; input[0] of the empty string is undefined
isAlphabetic(ch) ==
  IF ch = <<>> THEN FALSE
  ELSE LET n == CodePointAt(Head(ch))
       IN  (n >= 65 /\ n < 91) \/ (n >= 97 /\ n < 123)

isNumeric(ch) == StrLessEq(<<"0">>, ch) /\ StrLessEq(ch, <<"9">>)

isAlphanumeric(ch) == isAlphabetic(ch) \/ isNumeric(ch)

(***************************************************************************)
(* Parser objects and the closures handed to them.                         *)
(***************************************************************************)
Match(literal) == [tag |-> "Match", literal |-> literal]
Item == [tag |-> "Item"]
Identifier == [tag |-> "Identifier"]
\* the Identifier class of main.ts
IdentifierMain == [tag |-> "IdentifierMain"]
Pair(parser1, parser2) == [tag |-> "Pair", parser1 |-> parser1, parser2 |-> parser2]
PMap(p, map_fn) == [tag |-> "PMap", parser |-> p, map_fn |-> map_fn]
Left(parser1, parser2) == [tag |-> "Left", parser1 |-> parser1, parser2 |-> parser2]
Right(parser1, parser2) == [tag |-> "Right", parser1 |-> parser1, parser2 |-> parser2]
ZeroOrMore(p) == [tag |-> "ZeroOrMore", parser |-> p]
OneOrMore(p) == [tag |-> "OneOrMore", parser |-> p]
Pred(p, pred_fn) == [tag |-> "Pred", parser |-> p, pred_fn |-> pred_fn]
Either(parsers) == [tag |-> "Either", parsers |-> parsers]
FixedEither(parsers) == [tag |-> "FixedEither", parsers |-> parsers]
FlatMap(p, monad_fn) == [tag |-> "FlatMap", parser |-> p, monad_fn |-> monad_fn]
Optional(p) == [tag |-> "Optional", parser |-> p]
Sequence(parsers) == [tag |-> "Sequence", parsers |-> parsers]
Inspect(p) == [tag |-> "Inspect", parser |-> p]
\* json.ts; PArray is the class declared inside JsonObject.parse.  An object
\* of a grammar class carries in known the records of calls already
\* evaluated (see Known below); a new object has none.
JsonObjectWith(known) == [tag |-> "JsonObject", known |-> known]
JsonObject == JsonObjectWith(<<>>)
PArrayWith(known) == [tag |-> "PArray", known |-> known]
PArray == PArrayWith(<<>>)
\* pl0.ts; the constructor of Surrounded takes left for a missing right
BinaryOp(operand, op) == [tag |-> "BinaryOp", operand |-> operand, op |-> op]
Surrounded(left, middle, right) ==
  [tag |-> "Surrounded", left |-> left, middle |-> middle, right |-> right]
Surrounded2(left, middle) == Surrounded(left, middle, left)
SpaceSurrounded(p) == [tag |-> "SpaceSurrounded", parser |-> p]
FactorWith(known) == [tag |-> "Factor", known |-> known]
Factor == FactorWith(<<>>)
TermWith(known) == [tag |-> "Term", known |-> known]
Term == TermWith(<<>>)
ExprParserWith(known) == [tag |-> "ExprParser", known |-> known]
ExprParser == ExprParserWith(<<>>)
ConditionParserWith(known) == [tag |-> "ConditionParser", known |-> known]
ConditionParser == ConditionParserWith(<<>>)

\* _ => ":)"                                   (README)
Smiley == [fn |-> "smiley"]
\* (_) => null                                 (WhiteSpace)
ToNull == [fn |-> "toNull"]
\* ([result1, _]) => result1                   (Left.parse)
First == [fn |-> "first"]
\* ([_, result2]) => result2                   (Right.parse)
Second == [fn |-> "second"]
\* ([head, tail]) => { tail.unshift(head); return tail }   (OneOrMore.parse)
Unshift == [fn |-> "unshift"]
\* value2 => [value1, value2], value1 captured  (comment in Pair.parse)
TupleWith(value1) == [fn |-> "tupleWith", value1 |-> value1]

\* the character predicates of simple.ts, handed to pred()
IsNumericFn == [fn |-> "isNumeric"]
IsAlphabeticFn == [fn |-> "isAlphabetic"]

\* value1 => parser2.map(value2 => [value1, value2])   (comment in Pair.parse)
PairWith(parser2) == [fn |-> "pairWith", parser2 |-> parser2]
\* (delimiter) => new Match(delimiter): the closing text must repeat the opening one
MatchSame == [fn |-> "matchSame"]

\* (ch) => ch === " "                          (WhiteSpace)
IsSpaceFn == [fn |-> "isSpace"]
\* (c) => c != delimiter, delimiter captured    (QuotedString)
NotDelimiterFn(delimiter) == [fn |-> "notDelimiter", delimiter |-> delimiter]
\* (delimiter) => new Left(new ZeroOrMore(new Item().pred((c) => c !=
\* delimiter)), new Match(delimiter))           (QuotedString)
QuotedBody == [fn |-> "quotedBody"]
\* (value) => value.join("")                    (QuotedString)
Join == [fn |-> "join"]
\* (value) => parseInt(value.join(""))          (Num)
ParseIntJoin == [fn |-> "parseIntJoin"]
\* ([elems, end_elem]) => { elems.push(end_elem); return elems }
PushEnd == [fn |-> "pushEnd"]
\* (value) => value || []
OrEmpty == [fn |-> "orEmpty"]
\* (pairs) => { jsonData = {}; for ([key, value] of pairs) jsonData[key] =
\* value; return jsonData }                     (JsonObject.parse)
ToRecord == [fn |-> "toRecord"]
\* (value) => new LiteralExpr(parseInt(value.join("")))   (IntLiteral)
ToLiteralExpr == [fn |-> "toLiteralExpr"]
\* (ident) => new IdentExpr(ident)              (Factor.parse)
ToIdentExpr == [fn |-> "toIdentExpr"]
\* ([factor, right]) => the BinOpExpr tree built from the left
\*                                              (Term.parse, ExprParser.parse)
FoldBinOp == [fn |-> "foldBinOp"]
\* ([unary_op, term]) => unary_op ? new UnaryOpExpr(unary_op, term) : term
UnaryOrTerm == [fn |-> "unaryOrTerm"]
\* ([a, [b, c]]) => [a, b, c]                   (BinaryOp.parse)
Triple == [fn |-> "triple"]
\* ([op, expr]) => new UnaryCondition(op, expr) (ConditionParser.parse)
ToUnaryCondition == [fn |-> "toUnaryCondition"]
\* ([left_expr, op, right_expr]) => new BinCondition(left_expr, op, right_expr)
ToBinCondition == [fn |-> "toBinCondition"]

\* Array.prototype.join("") of an array of strings
RECURSIVE JoinStrings(_)
JoinStrings(xs) ==
  IF xs = <<>> THEN <<>> ELSE Head(xs).s \o JoinStrings(Tail(xs))

\* parseInt(s) of a string of decimal digits
RECURSIVE ParseInt(_)
ParseInt(s) ==
  IF s = <<>> THEN 0
  ELSE 10 * ParseInt(SubSeq(s, 1, Len(s) - 1)) + (CodePointAt(s[Len(s)]) - 48)

\* jsonData after the for loop jsonData[key] = value over the first n pairs.
\* The key __proto__ creates no property: the assignment runs the setter
\* that jsonData inherits from Object.prototype, which makes an array or
\* object value the prototype of jsonData and ignores any other value.
RECURSIVE AssignAll(_, _)
AssignAll(pairs, n) ==
  IF n = 0 THEN Obj(<<>>)
  ELSE LET before == AssignAll(pairs, n - 1)
           key == pairs[n].xs[1].s
           value == pairs[n].xs[2]
       IN  IF key = <<"_", "_", "p", "r", "o", "t", "o", "_", "_">>
           THEN IF value.t \in {"array", "object"}
                THEN [before EXCEPT !.proto = value]
                ELSE before
           ELSE [before EXCEPT !.fields =
                   [k \in DOMAIN before.fields \cup {key} |->
                      IF k = key THEN value ELSE before.fields[k]]]

\* the iteration over right of Term.parse and ExprParser.parse, from the
\* i-th [op, left_expr] on, bin_op_expr being the tree built so far
RECURSIVE FoldRight(_, _, _)
FoldRight(bin_op_expr, right, i) ==
  IF i > Len(right) THEN bin_op_expr
  ELSE FoldRight(BinOpExpr(bin_op_expr, right[i].xs[1].s, right[i].xs[2]),
                 right, i + 1)

\* map_fn(val)
ApplyMap(map_fn, val) ==
  CASE map_fn.fn = "smiley" -> Str(<<":", ")">>)
    [] map_fn.fn = "toNull" -> Null
    [] map_fn.fn = "first" -> val.xs[1]
    [] map_fn.fn = "second" -> val.xs[2]
    [] map_fn.fn = "unshift" -> Arr(<<val.xs[1]>> \o val.xs[2].xs)
    [] map_fn.fn = "tupleWith" -> Arr(<<map_fn.value1, val>>)
    [] map_fn.fn = "join" -> Str(JoinStrings(val.xs))
    [] map_fn.fn = "parseIntJoin" -> Num(ParseInt(JoinStrings(val.xs)))
    [] map_fn.fn = "pushEnd" -> Arr(Append(val.xs[1].xs, val.xs[2]))
    [] map_fn.fn = "orEmpty" -> IF IsFalsy(val) THEN Arr(<<>>) ELSE val
    [] map_fn.fn = "toRecord" -> AssignAll(val.xs, Len(val.xs))
    [] map_fn.fn = "toLiteralExpr" -> LiteralExpr(ParseInt(JoinStrings(val.xs)))
    [] map_fn.fn = "toIdentExpr" -> IdentExpr(val.s)
    [] map_fn.fn = "foldBinOp" -> FoldRight(val.xs[1], val.xs[2].xs, 1)
    [] map_fn.fn = "unaryOrTerm" ->
         IF IsFalsy(val.xs[1]) THEN val.xs[2]
         ELSE UnaryOpExpr(val.xs[1].s, val.xs[2])
    [] map_fn.fn = "triple" ->
         Arr(<<val.xs[1], val.xs[2].xs[1], val.xs[2].xs[2]>>)
    [] map_fn.fn = "toUnaryCondition" -> UnaryCondition(val.xs[1].s, val.xs[2])
    [] map_fn.fn = "toBinCondition" ->
         BinCondition(val.xs[1], val.xs[2].s, val.xs[3])

\* pred_fn(val), val a string
ApplyPred(pred_fn, val) ==
  CASE pred_fn.fn = "isNumeric" -> isNumeric(val.s)
    [] pred_fn.fn = "isAlphabetic" -> isAlphabetic(val.s)
    [] pred_fn.fn = "isSpace" -> val.s = <<" ">>
    [] pred_fn.fn = "notDelimiter" -> val # pred_fn.delimiter

\* monad_fn(val): the parser to continue with
ApplyMonad(monad_fn, val) ==
  CASE monad_fn.fn = "pairWith" -> PMap(monad_fn.parser2, TupleWith(val))
    [] monad_fn.fn = "matchSame" -> Match(val.s)
    [] monad_fn.fn = "quotedBody" ->
         Left(ZeroOrMore(Pred(Item, NotDelimiterFn(val))), Match(val.s))

(***************************************************************************)
(* parse(input) of every class.  Parse dispatches on the class of the      *)
(* object, as the method call this.parser.parse(input) does.               *)
(***************************************************************************)
RECURSIVE Parse(_, _)

\* Match.parse cutting the literal's length off the end of the input
Match_parse_SliceEnd(this, in) ==
  LET next == SliceTo(in, Len(this.literal))
      remainder == SliceTo(in, Len(in) - Len(this.literal))
  IN  IF next = this.literal
      THEN ParseResult(Ok, remainder, Str(this.literal), Undefined)
      ELSE ParseResult(Error, in, Undefined, Msg("Couldn't match"))

\* Match.parse
Match_parse(this, in) ==
  LET next == SliceTo(in, Len(this.literal))
      remainder == SliceFrom(in, Len(this.literal))
  IN  IF next = this.literal
      THEN ParseResult(Ok, remainder, Str(this.literal), Undefined)
      ELSE ParseResult(Error, in, Undefined, Msg("Couldn't match"))

\* Item.parse
Item_parse(this, in) ==
  IF Len(in) = 0
  THEN ParseResult(Error, in, Undefined, Msg("Couldn't retrieve a single item, EOI"))
  ELSE ParseResult(Ok, SliceFrom(in, 1), Str(<<in[1]>>), Undefined)

\* the for loop of Identifier.parse: c after the loop, i the next index (0-based)
RECURSIVE Identifier_count(_, _, _)
Identifier_count(in, i, c) ==
  IF i < Len(in) /\ (isAlphanumeric(<<in[i + 1]>>) \/ in[i + 1] = "-")
  THEN Identifier_count(in, i + 1, c + 1)
  ELSE c

\* Identifier.parse
Identifier_parse(this, in) ==
  IF ~isAlphabetic(SliceTo(in, 1))
  THEN ParseResult(Error, in, Undefined, Msg("Couldn't parse identifier"))
  ELSE LET c == Identifier_count(in, 1, 1)
       IN  ParseResult(Ok, SliceFrom(in, c), Str(SliceTo(in, c)), Undefined)

\* isAlphabetic(ch) of main.ts: ch.codePointAt(0) is evaluated first, and
\* throws a TypeError when ch is undefined (input[0] of the empty string)
isAlphabetic_main(ch) ==
  IF ch = <<>> THEN [thrown |-> TRUE, value |-> FALSE]
  ELSE LET n == CodePointAt(Head(ch))
       IN  [thrown |-> FALSE,
            value |-> (n >= 65 /\ n < 91) \/ (n >= 97 /\ n < 123)]

\* isAlphanumeric(ch) of main.ts, ch a character
isAlphanumeric_main(ch) == isAlphabetic_main(ch).value \/ isNumeric(ch)

\* the for loop of Identifier.parse of main.ts
RECURSIVE Identifier_count_main(_, _, _)
Identifier_count_main(in, i, c) ==
  IF i < Len(in) /\ (isAlphanumeric_main(<<in[i + 1]>>) \/ in[i + 1] = "-")
  THEN Identifier_count_main(in, i + 1, c + 1)
  ELSE c

\* Identifier.parse of main.ts
Identifier_parse_main(this, in) ==
  LET first == isAlphabetic_main(SliceTo(in, 1))
  IN  IF first.thrown THEN ThrownTypeError
      ELSE IF ~first.value
      THEN ParseResult(Error, in, Undefined, Msg("Couldn't parse identifier"))
      ELSE LET c == Identifier_count_main(in, 1, 1)
           IN  ParseResult(Ok, SliceFrom(in, c), Str(SliceTo(in, c)), Undefined)

\* Pair.parse returning the remainder of the first parser
Pair_parse_FirstRemainder(this, in) ==
  LET r1 == Parse(this.parser1, in)
      r2 == Parse(this.parser2, r1.remainder)
  IN  IF r1.state = "Thrown" THEN Thrown
      ELSE IF r1.state = Ok /\ r1.value # Undefined
      THEN IF r2.state = "Thrown" THEN Thrown
           ELSE IF r2.state = Ok /\ r2.value # Undefined
           THEN ParseResult(Ok, r1.remainder, Arr(<<r1.value, r2.value>>), Undefined)
           ELSE ParseResult(Error, in, Undefined, r2.error)
      ELSE ParseResult(Error, in, Undefined, r1.error)

\* Pair.parse
Pair_parse(this, in) ==
  LET r1 == Parse(this.parser1, in)
      r2 == Parse(this.parser2, r1.remainder)
  IN  IF r1.state = "Thrown" THEN Thrown
      ELSE IF r1.state = Ok /\ r1.value # Undefined
      THEN IF r2.state = "Thrown" THEN Thrown
           ELSE IF r2.state = Ok /\ r2.value # Undefined
           THEN ParseResult(Ok, r2.remainder, Arr(<<r1.value, r2.value>>), Undefined)
           ELSE ParseResult(Error, in, Undefined, r2.error)
      ELSE ParseResult(Error, in, Undefined, r1.error)

\* PMap.parse
PMap_parse(this, in) ==
  LET r == Parse(this.parser, in)
  IN  IF r.state = "Thrown" THEN Thrown
      ELSE IF r.state = Ok /\ r.value # Undefined
      THEN ParseResult(r.state, r.remainder, ApplyMap(this.map_fn, r.value), Undefined)
      ELSE ParseResult(r.state, r.remainder, Undefined, r.error)

\* Left.parse
Left_parse(this, in) ==
  Parse(PMap(Pair(this.parser1, this.parser2), First), in)

\* Right.parse
Right_parse(this, in) ==
  Parse(PMap(Pair(this.parser1, this.parser2), Second), in)

\* the loop body taking over the remainder of the attempt that failed
ZeroOrMore_body_FailedRemainder(this, in, res) ==
  LET r == Parse(this.parser, in)
  IN  IF r.state = "Thrown" THEN [pc |-> "thrown", input |-> in, result |-> res]
      ELSE IF r.state = Ok /\ r.value # Undefined
      THEN IF Len(res) >= MaxArrayLength
           THEN [pc |-> "thrown", input |-> in, result |-> res]
           ELSE [pc |-> "loop", input |-> r.remainder, result |-> Append(res, r.value)]
      ELSE [pc |-> "break", input |-> r.remainder, result |-> res]

\* one pass through the body of the while (true) loop of ZeroOrMore.parse,
\* entered with the locals input = in and result = res
ZeroOrMore_body(this, in, res) ==
  LET r == Parse(this.parser, in)
  IN  IF r.state = "Thrown" THEN [pc |-> "thrown", input |-> in, result |-> res]
      ELSE IF r.state = Ok /\ r.value # Undefined
      THEN IF Len(res) >= MaxArrayLength
           THEN [pc |-> "thrown", input |-> in, result |-> res]
           ELSE [pc |-> "loop", input |-> r.remainder, result |-> Append(res, r.value)]
      ELSE [pc |-> "break", input |-> in, result |-> res]

\* the while (true) loop of ZeroOrMore.parse and the return after it (the
\* pass b is bound by a set constructor so that it is computed once)
RECURSIVE ZeroOrMore_loop(_, _, _)
ZeroOrMore_loop(this, in, res) ==
  LET after(b) ==
        CASE b.pc = "thrown" -> Thrown
          [] b.pc = "loop" -> ZeroOrMore_loop(this, b.input, b.result)
          [] b.pc = "break" -> ParseResult(Ok, b.input, Arr(b.result), Undefined)
  IN  CHOOSE r \in {after(b) : b \in {ZeroOrMore_body(this, in, res)}} : TRUE

\* ZeroOrMore.parse
ZeroOrMore_parse(this, in) == ZeroOrMore_loop(this, in, <<>>)

\* OneOrMore.parse returning the tail without the head
OneOrMore_parse_TailOnly(this, in) ==
  Parse(PMap(Pair(this.parser, ZeroOrMore(this.parser)), Second), in)

\* OneOrMore.parse
OneOrMore_parse(this, in) ==
  Parse(PMap(Pair(this.parser, ZeroOrMore(this.parser)), Unshift), in)

\* Pred.parse
Pred_parse(this, in) ==
  LET r == Parse(this.parser, in)
  IN  IF r.state = "Thrown" THEN Thrown
      ELSE IF r.state = Ok /\ r.value # Undefined /\ ApplyPred(this.pred_fn, r.value)
      THEN ParseResult(r.state, r.remainder, r.value, Undefined)
      ELSE ParseResult(r.state, in, Undefined, Msg("Failed predicate"))

\* the loop of Either.parse giving the next branch the remainder of the failed one
RECURSIVE Either_loop_Advancing(_, _, _)
Either_loop_Advancing(this, in, i) ==
  IF i > Len(this.parsers)
  THEN ParseResult(Error, in, Undefined, Msg("No parser on the either succeed"))
  ELSE LET r == Parse(this.parsers[i], in)
       IN  IF r.state = "Thrown" THEN Thrown
           ELSE IF r.state = Ok /\ r.value # Undefined
           THEN ParseResult(r.state, r.remainder, r.value, Undefined)
           ELSE Either_loop_Advancing(this, r.remainder, i + 1)

\* the for loop of Either.parse from the i-th parser on, and the return after it
RECURSIVE Either_loop(_, _, _)
Either_loop(this, in, i) ==
  IF i > Len(this.parsers)
  THEN ParseResult(Error, in, Undefined, Msg("No parser on the either succeed"))
  ELSE LET r == Parse(this.parsers[i], in)
       IN  IF r.state = "Thrown" THEN Thrown
           ELSE IF r.state = Ok /\ r.value # Undefined
           THEN ParseResult(r.state, r.remainder, r.value, Undefined)
           ELSE Either_loop(this, in, i + 1)

\* Either.parse
Either_parse(this, in) == Either_loop(this, in, 1)

\* the for loop of FixedEither.parse from the i-th parser on, and the return after it
RECURSIVE FixedEither_loop(_, _, _)
FixedEither_loop(this, in, i) ==
  IF i > Len(this.parsers)
  THEN ParseResult(Error, in, Undefined, Msg("No parser on the either succeed"))
  ELSE LET r == Parse(this.parsers[i], in)
       IN  IF r.state = "Thrown" THEN Thrown
           ELSE IF r.state = Ok /\ r.value # Undefined
           THEN ParseResult(r.state, r.remainder, r.value, Undefined)
           ELSE FixedEither_loop(this, in, i + 1)

\* FixedEither.parse
FixedEither_parse(this, in) == FixedEither_loop(this, in, 1)

\* FlatMap.parse
FlatMap_parse(this, in) ==
  LET r == Parse(this.parser, in)
  IN  IF r.state = "Thrown" THEN Thrown
      ELSE IF r.state = Ok /\ r.value # Undefined
      THEN Parse(ApplyMonad(this.monad_fn, r.value), r.remainder)
      ELSE ParseResult(r.state, r.remainder, Undefined, r.error)

\* Optional.parse passing on the state of the inner record
Optional_parse_InnerState(this, in) ==
  LET r == Parse(this.parser, in)
  IN  IF r.state = "Thrown" THEN Thrown
      ELSE ParseResult(r.state, r.remainder, IF IsFalsy(r.value) THEN Null ELSE r.value,
                       Undefined)

\* Optional.parse
Optional_parse(this, in) ==
  LET r == Parse(this.parser, in)
  IN  IF r.state = "Thrown" THEN Thrown
      ELSE ParseResult(Ok, r.remainder, IF IsFalsy(r.value) THEN Null ELSE r.value,
                       Undefined)

\* the for loop of Sequence.parse from the i-th parser on, and the return after it
RECURSIVE Sequence_loop(_, _, _)
Sequence_loop(this, in, i) ==
  IF i > Len(this.parsers)
  THEN ParseResult(Ok, in, Null, Undefined)
  ELSE LET r == Parse(this.parsers[i], in)
       IN  IF r.state = "Thrown" THEN Thrown
           ELSE IF r.state = Error
           THEN ParseResult(r.state, r.remainder, Undefined,
                            Msg("Couldn't fulfill sequence of parsers"))
           ELSE Sequence_loop(this, r.remainder, i + 1)

\* Sequence.parse
Sequence_parse(this, in) == Sequence_loop(this, in, 1)

\* Inspect.parse; console.log(val) changes nothing
Inspect_parse(this, in) == Parse(this.parser, in)

(***************************************************************************)
(* json.ts.  JsonObject.parse and PArray.parse build their parser          *)
(* expression when they are called and call its parse(input); X_expr is    *)
(* the expression, X_parse the call.                                       *)
(***************************************************************************)
WhiteSpace == PMap(Pred(Item, IsSpaceFn), ToNull)

WhiteSpaces == ZeroOrMore(WhiteSpace)

\* function SpaceSurrounded(match) of json.ts
Json_SpaceSurrounded(match) ==
  Sequence(<<WhiteSpaces, Match(match), WhiteSpaces>>)

\* const Num, QuotedString, Bool of JsonObject.parse
Json_Num == PMap(OneOrMore(Pred(Item, IsNumericFn)), ParseIntJoin)

Json_QuotedString ==
  PMap(FlatMap(Either(<<Match(<<"\"">>), Match(<<"'">>)>>), QuotedBody), Join)

Json_Bool ==
  Either(<<Match(<<"t", "r", "u", "e">>), Match(<<"f", "a", "l", "s", "e">>)>>)

PArray_expr(this) ==
  PMap(Right(Json_SpaceSurrounded(<<"[">>),
             Left(Optional(PMap(
                    Pair(ZeroOrMore(
                           Left(Either(<<Json_Num, Json_Bool, Json_QuotedString,
                                         this, JsonObjectWith(this.known)>>),
                                Json_SpaceSurrounded(<<",">>))),
                         Either(<<Json_Num, Json_Bool, Json_QuotedString,
                                  this, JsonObjectWith(this.known)>>)),
                    PushEnd)),
                  Json_SpaceSurrounded(<<"]">>))),
       OrEmpty)

PArray_parse(this, in) == Parse(PArray_expr(this), in)

\* const JsonPair of JsonObject.parse
Json_JsonPair(this) ==
  Pair(Json_QuotedString,
       Right(Json_SpaceSurrounded(<<":">>),
             Inspect(Either(<<Json_Num, Json_Bool, Json_QuotedString,
                              PArrayWith(this.known), this>>))))

\* JsonObject.parse trying an array at the start of its input first
JsonObject_expr_OrArray(this) ==
  Either(<<PArrayWith(this.known),
    PMap(Right(Json_SpaceSurrounded(<<"{">>),
               Left(PMap(Optional(PMap(
                           Pair(ZeroOrMore(Left(Json_JsonPair(this),
                                                Json_SpaceSurrounded(<<",">>))),
                                Json_JsonPair(this)),
                           PushEnd)),
                         OrEmpty),
                    Json_SpaceSurrounded(<<"}">>))),
         ToRecord)>>)

JsonObject_expr(this) ==
  PMap(Right(Json_SpaceSurrounded(<<"{">>),
             Left(PMap(Optional(PMap(
                         Pair(ZeroOrMore(Left(Json_JsonPair(this),
                                              Json_SpaceSurrounded(<<",">>))),
                              Json_JsonPair(this)),
                         PushEnd)),
                       OrEmpty),
                  Json_SpaceSurrounded(<<"}">>))),
       ToRecord)

JsonObject_parse(this, in) == Parse(JsonObject_expr(this), in)

(***************************************************************************)
(* pl0.ts, in the same way.                                                *)
(***************************************************************************)
BinaryOp_expr(this) ==
  PMap(Pair(this.operand, Pair(this.op, this.operand)), Triple)

BinaryOp_parse(this, in) == Parse(BinaryOp_expr(this), in)

Surrounded_expr(this) == Right(this.left, Left(this.middle, this.right))

Surrounded_parse(this, in) == Parse(Surrounded_expr(this), in)

SpaceSurrounded_expr(this) == Surrounded2(WhiteSpaces, this.parser)

SpaceSurrounded_parse(this, in) == Parse(SpaceSurrounded_expr(this), in)

IntLiteral == PMap(OneOrMore(Pred(Item, IsNumericFn)), ToLiteralExpr)

Factor_expr(this) ==
  SpaceSurrounded(FixedEither(<<
    PMap(Identifier, ToIdentExpr),
    IntLiteral,
    Surrounded(Match(<<"(">>), ExprParserWith(this.known), Match(<<")">>))>>))

Factor_parse(this, in) == Parse(Factor_expr(this), in)

Term_expr(this) ==
  PMap(Pair(FactorWith(this.known),
            ZeroOrMore(Pair(FixedEither(<<Match(<<"*">>), Match(<<"/">>)>>),
                            FactorWith(this.known)))),
       FoldBinOp)

Term_parse(this, in) == Parse(Term_expr(this), in)

ExprParser_expr(this) ==
  PMap(Pair(PMap(Pair(Optional(FixedEither(<<Match(<<"+">>), Match(<<"-">>)>>)),
                      TermWith(this.known)),
                 UnaryOrTerm),
            ZeroOrMore(Pair(FixedEither(<<Match(<<"+">>), Match(<<"-">>)>>),
                            TermWith(this.known)))),
       FoldBinOp)

ExprParser_parse(this, in) == Parse(ExprParser_expr(this), in)

ConditionParser_expr(this) ==
  FixedEither(<<
    PMap(Pair(Match(<<"o", "d", "d">>), ExprParserWith(this.known)),
         ToUnaryCondition),
    PMap(BinaryOp(ExprParserWith(this.known),
                  FixedEither(<<Match(<<"=">>), Match(<<"#">>), Match(<<"<">>),
                                Match(<<"<", "=">>), Match(<<">">>),
                                Match(<<">", "=">>)>>)),
         ToBinCondition)>>)

ConditionParser_parse(this, in) == Parse(ConditionParser_expr(this), in)

\* the call this.parse(in) is one of those whose record this.known holds
IsKnown(this, in) ==
  /\ Len(in) < Len(this.known)
  /\ this.known[Len(in) + 1].input = in
  /\ this.tag \in DOMAIN this.known[Len(in) + 1].records

KnownRecord(this, in) == this.known[Len(in) + 1].records[this.tag]

Parse(this, in) ==
  CASE this.tag = "Match" -> Match_parse(this, in)
    [] this.tag = "Item" -> Item_parse(this, in)
    [] this.tag = "Identifier" -> Identifier_parse(this, in)
    [] this.tag = "Pair" -> Pair_parse(this, in)
    [] this.tag = "PMap" -> PMap_parse(this, in)
    [] this.tag = "Left" -> Left_parse(this, in)
    [] this.tag = "Right" -> Right_parse(this, in)
    [] this.tag = "ZeroOrMore" -> ZeroOrMore_parse(this, in)
    [] this.tag = "OneOrMore" -> OneOrMore_parse(this, in)
    [] this.tag = "Pred" -> Pred_parse(this, in)
    [] this.tag = "Either" -> Either_parse(this, in)
    [] this.tag = "FixedEither" -> FixedEither_parse(this, in)
    [] this.tag = "FlatMap" -> FlatMap_parse(this, in)
    [] this.tag = "Optional" -> Optional_parse(this, in)
    [] this.tag = "Sequence" -> Sequence_parse(this, in)
    [] this.tag = "Inspect" -> Inspect_parse(this, in)
    [] this.tag = "JsonObject" ->
         IF IsKnown(this, in) THEN KnownRecord(this, in)
         ELSE JsonObject_parse(this, in)
    [] this.tag = "PArray" ->
         IF IsKnown(this, in) THEN KnownRecord(this, in)
         ELSE PArray_parse(this, in)
    [] this.tag = "BinaryOp" -> BinaryOp_parse(this, in)
    [] this.tag = "Surrounded" -> Surrounded_parse(this, in)
    [] this.tag = "SpaceSurrounded" -> SpaceSurrounded_parse(this, in)
    [] this.tag = "Factor" -> Factor_parse(this, in)
    [] this.tag = "Term" -> Term_parse(this, in)
    [] this.tag = "ExprParser" ->
         IF IsKnown(this, in) THEN KnownRecord(this, in)
         ELSE ExprParser_parse(this, in)
    [] this.tag = "ConditionParser" -> ConditionParser_parse(this, in)

(***************************************************************************)
(* parse() of a class is a function of the input alone, so the record a    *)
(* call returns can be taken from an earlier evaluation of the same call.  *)
(* Known(grammar, s, k) holds, for every suffix of s of length 0 .. k, the *)
(* records that the recursive classes of the grammar return on it, each    *)
(* evaluated with the records of the shorter suffixes at hand; Warm gives  *)
(* them to the object of a call on s.  This keeps the evaluation of a      *)
(* nested document shallow and changes no record.                          *)
(***************************************************************************)
RECURSIVE Known(_, _, _)
Known(grammar, s, k) ==
  IF k < 0 THEN <<>>
  ELSE LET before == Known(grammar, s, k - 1)
           suffix == SliceFrom(s, Len(s) - k)
       IN  Append(before,
             [input |-> suffix,
              records |->
                IF grammar = "json"
                THEN [JsonObject |-> JsonObject_parse(JsonObjectWith(before), suffix),
                      PArray |-> PArray_parse(PArrayWith(before), suffix)]
                ELSE [ExprParser |-> ExprParser_parse(ExprParserWith(before), suffix)]])

Warm(p, s) ==
  IF "known" \notin DOMAIN p THEN p
  ELSE [p EXCEPT !.known =
          Known(IF p.tag \in {"JsonObject", "PArray"} THEN "json" ELSE "pl0",
                s, Len(s) - 1)]

(***************************************************************************)
(* The calls of parse() of the recursive classes (JsonObject, PArray,      *)
(* ExprParser) that this.parse(in) makes, each with its object and its     *)
(* input; the calls made inside one of those calls are not followed.       *)
(* Every class calls its sub-parsers as its parse() does.                  *)
(***************************************************************************)
RecursiveClasses == {"JsonObject", "PArray", "ExprParser"}

\* the parser expression that parse() of a grammar class builds
ExprBuilt(this) ==
  CASE this.tag = "JsonObject" -> JsonObject_expr(this)
    [] this.tag = "PArray" -> PArray_expr(this)
    [] this.tag = "BinaryOp" -> BinaryOp_expr(this)
    [] this.tag = "Surrounded" -> Surrounded_expr(this)
    [] this.tag = "SpaceSurrounded" -> SpaceSurrounded_expr(this)
    [] this.tag = "Factor" -> Factor_expr(this)
    [] this.tag = "Term" -> Term_expr(this)
    [] this.tag = "ExprParser" -> ExprParser_expr(this)
    [] this.tag = "ConditionParser" -> ConditionParser_expr(this)

RECURSIVE Calls(_, _)

\* Pair.parse: parser2 is called when parser1 succeeded
Pair_calls(this, in) ==
  LET r1 == Parse(this.parser1, in)
  IN  Calls(this.parser1, in)
      \cup (IF r1.state = Ok /\ r1.value # Undefined
            THEN Calls(this.parser2, r1.remainder) ELSE {})

\* the loop of ZeroOrMore.parse: another pass after a pass that succeeded
RECURSIVE ZeroOrMore_calls(_, _, _)
ZeroOrMore_calls(this, in, res) ==
  LET b == ZeroOrMore_body(this, in, res)
  IN  Calls(this.parser, in)
      \cup (IF b.pc = "loop" THEN ZeroOrMore_calls(this, b.input, b.result)
            ELSE {})

\* the loop of Either.parse and of FixedEither.parse: the next parser is
\* called when the one before did not succeed
RECURSIVE Either_calls(_, _, _)
Either_calls(this, in, i) ==
  IF i > Len(this.parsers) THEN {}
  ELSE LET r == Parse(this.parsers[i], in)
       IN  Calls(this.parsers[i], in)
           \cup (IF r.state = "Thrown" \/ (r.state = Ok /\ r.value # Undefined)
                 THEN {} ELSE Either_calls(this, in, i + 1))

\* FlatMap.parse: the parser monad_fn gives is called when parser succeeded
FlatMap_calls(this, in) ==
  LET r == Parse(this.parser, in)
  IN  Calls(this.parser, in)
      \cup (IF r.state = Ok /\ r.value # Undefined
            THEN Calls(ApplyMonad(this.monad_fn, r.value), r.remainder)
            ELSE {})

\* the loop of Sequence.parse: the next parser is called unless the one
\* before returned state Error
RECURSIVE Sequence_calls(_, _, _)
Sequence_calls(this, in, i) ==
  IF i > Len(this.parsers) THEN {}
  ELSE LET r == Parse(this.parsers[i], in)
       IN  Calls(this.parsers[i], in)
           \cup (IF r.state \in {"Thrown", Error}
                 THEN {} ELSE Sequence_calls(this, r.remainder, i + 1))

Calls(this, in) ==
  CASE this.tag \in RecursiveClasses -> {[parser |-> this, input |-> in]}
    [] this.tag \in {"Match", "Item", "Identifier"} -> {}
    [] this.tag = "Pair" -> Pair_calls(this, in)
    [] this.tag \in {"PMap", "Pred", "Optional", "Inspect"} ->
         Calls(this.parser, in)
    [] this.tag \in {"Left", "Right"} ->
         Calls(Pair(this.parser1, this.parser2), in)
    [] this.tag = "ZeroOrMore" -> ZeroOrMore_calls(this, in, <<>>)
    [] this.tag = "OneOrMore" ->
         Calls(Pair(this.parser, ZeroOrMore(this.parser)), in)
    [] this.tag \in {"Either", "FixedEither"} -> Either_calls(this, in, 1)
    [] this.tag = "FlatMap" -> FlatMap_calls(this, in)
    [] this.tag = "Sequence" -> Sequence_calls(this, in, 1)
    [] OTHER -> Calls(ExprBuilt(this), in)

\* the calls of the recursive classes made by the call this.parse(in) itself
Reentries(this, in) == Calls(ExprBuilt(this), in)

\* the greatest number of calls of the recursive classes that are active,
\* one inside the other, inside the call this.parse(in)
RECURSIVE NestingDepth(_, _)
NestingDepth(this, in) ==
  LET inner == {NestingDepth(c.parser, c.input) : c \in Reentries(this, in)}
  IN  IF inner = {} THEN 0
      ELSE 1 + (CHOOSE d \in inner : \A e \in inner : e <= d)

(***************************************************************************)
(* The calls explored: every parser object of the universe below, on       *)
(* every string over Alphabet of length at most MaxLen and on the strings  *)
(* of the README.                                                          *)
(***************************************************************************)
Alphabet == {"a", "1"}

RECURSIVE StringsUpTo(_)
StringsUpTo(n) ==
  IF n = 0 THEN {<<>>}
  ELSE LET shorter == StringsUpTo(n - 1)
       IN  shorter \cup {Append(s, ch) : s \in {t \in shorter : Len(t) = n - 1},
                                          ch \in Alphabet}

Hello == <<"H", "e", "l", "l", "o">>
HelloWorld == <<"H", "e", "l", "l", "o", " ", "W", "o", "r", "l", "d">>

Inputs == StringsUpTo(MaxLen) \cup {HelloWorld, Hello}

\* the leaf parsers of simple.ts
Leaves == {Match(<<>>), Match(<<"a">>), Match(<<"a", "1">>), Item, Identifier}
\* the leaves used as the second operand of a nested binary combinator
FewLeaves == {Match(<<"a">>), Item}

PredFns == {IsNumericFn, IsAlphabeticFn}
MapFns == {Smiley, ToNull}

\* the ways to combine two parsers; a and b produce any values
Binary(A, B) ==
  {Pair(a, b) : a \in A, b \in B}
  \cup {Left(a, b) : a \in A, b \in B}
  \cup {Right(a, b) : a \in A, b \in B}
  \cup {Either(<<a, b>>) : a \in A, b \in B}
  \cup {FixedEither(<<a, b>>) : a \in A, b \in B}
  \cup {Sequence(<<a, b>>) : a \in A, b \in B}
  \cup {FlatMap(a, PairWith(b)) : a \in A, b \in B}

\* the ways to wrap one parser that produces any value
Unary(A) ==
  {PMap(a, f) : a \in A, f \in MapFns}
  \cup {ZeroOrMore(a) : a \in A}
  \cup {OneOrMore(a) : a \in A}
  \cup {Optional(a) : a \in A}
  \cup {Sequence(<<a>>) : a \in A}

\* the ways to wrap one parser that produces a string
UnaryOnString(A) ==
  {Pred(a, f) : a \in A, f \in PredFns}
  \cup {FlatMap(a, MatchSame) : a \in A}

\* parsers of depth 1 that produce a string
Strings1 ==
  UnaryOnString(Leaves)
  \cup {PMap(a, Smiley) : a \in Leaves}
  \cup {Either(<<a, b>>) : a \in Leaves, b \in Leaves}
  \cup {FixedEither(<<a, b>>) : a \in Leaves, b \in Leaves}

Depth1 == Unary(Leaves) \cup UnaryOnString(Leaves) \cup Binary(Leaves, Leaves)

Depth2 ==
  Unary(Depth1) \cup UnaryOnString(Strings1)
  \cup Binary(Depth1, FewLeaves) \cup Binary(FewLeaves, Depth1)

\* new Pair(new Match("Hello"), new Item()).map(_ => ":)") of the README
Readme == {Pair(Match(Hello), Item), PMap(Pair(Match(Hello), Item), Smiley)}

Universe == Leaves \cup Depth1 \cup Depth2 \cup Readme

(***************************************************************************)
(* The state machine: a call parser.parse(input) is pending (pc = "ready") *)
(* and then returns a record (pc = "returned") or is left by an exception  *)
(* (pc = "thrown").  The loop of a ZeroOrMore called directly runs one     *)
(* pass per step (pc = "loop"), cur and acc being its locals input and     *)
(* result.                                                                 *)
(***************************************************************************)
Init ==
  /\ parser \in Universe
  /\ input \in Inputs
  /\ result = NoResult
  /\ pc = "ready"
  /\ cur = input
  /\ acc = <<>>

\* the call of parse() of class tag returns r or throws
Return(tag, r) ==
  /\ pc = "ready"
  /\ parser.tag = tag
  /\ result' = r
  /\ pc' = IF r.state = "Thrown" THEN "thrown" ELSE "returned"
  /\ UNCHANGED <<parser, input, cur, acc>>

MatchCall == Return("Match", Match_parse(parser, input))
ItemCall == Return("Item", Item_parse(parser, input))
IdentifierCall == Return("Identifier", Identifier_parse(parser, input))
PairCall == Return("Pair", Pair_parse(parser, input))
PMapCall == Return("PMap", PMap_parse(parser, input))
LeftCall == Return("Left", Left_parse(parser, input))
RightCall == Return("Right", Right_parse(parser, input))
OneOrMoreCall == Return("OneOrMore", OneOrMore_parse(parser, input))
PredCall == Return("Pred", Pred_parse(parser, input))
EitherCall == Return("Either", Either_parse(parser, input))
FixedEitherCall == Return("FixedEither", FixedEither_parse(parser, input))
FlatMapCall == Return("FlatMap", FlatMap_parse(parser, input))
OptionalCall == Return("Optional", Optional_parse(parser, input))
SequenceCall == Return("Sequence", Sequence_parse(parser, input))

\* ZeroOrMore.parse called directly: one pass of its loop, and on break the return
ZeroOrMoreStep ==
  /\ pc \in {"ready", "loop"}
  /\ parser.tag = "ZeroOrMore"
  /\ \E b \in {ZeroOrMore_body(parser, cur, acc)} :
         /\ pc' = (CASE b.pc = "loop" -> "loop"
                     [] b.pc = "break" -> "returned"
                     [] b.pc = "thrown" -> "thrown")
         /\ cur' = b.input
         /\ acc' = b.result
         /\ result' = (CASE b.pc = "loop" -> result
                         [] b.pc = "break" -> ParseResult(Ok, b.input, Arr(b.result), Undefined)
                         [] b.pc = "thrown" -> Thrown)
  /\ UNCHANGED <<parser, input>>

Next ==
  \/ MatchCall
  \/ ItemCall
  \/ IdentifierCall
  \/ PairCall
  \/ PMapCall
  \/ LeftCall
  \/ RightCall
  \/ ZeroOrMoreStep
  \/ OneOrMoreCall
  \/ PredCall
  \/ EitherCall
  \/ FixedEitherCall
  \/ FlatMapCall
  \/ OptionalCall
  \/ SequenceCall

Spec == Init /\ [][Next]_vars

\* the calls made directly on a ZeroOrMore of depth at most 2
LoopInit ==
  /\ parser \in {ZeroOrMore(p) : p \in Leaves \cup Unary(Leaves) \cup UnaryOnString(Leaves)}
  /\ input \in Inputs
  /\ result = NoResult
  /\ pc = "ready"
  /\ cur = input
  /\ acc = <<>>

\* execution is synchronous: a loop that can make another pass makes it
LoopSpec == LoopInit /\ [][ZeroOrMoreStep]_vars /\ WF_vars(ZeroOrMoreStep)

(***************************************************************************)
(* The two copies of Identifier, of simple.ts and of main.ts, called on     *)
(* every string of letters, digits, hyphens and spaces of length at most   *)
(* MaxLen.                                                                 *)
(***************************************************************************)
IdentAlphabet == {"a", "1", "-", " "}

RECURSIVE StringsOver(_, _)
StringsOver(A, n) ==
  IF n = 0 THEN {<<>>}
  ELSE LET shorter == StringsOver(A, n - 1)
       IN  shorter \cup {Append(s, ch) : s \in {t \in shorter : Len(t) = n - 1},
                                          ch \in A}

IdentInit ==
  /\ parser \in {Identifier, IdentifierMain}
  /\ input \in StringsOver(IdentAlphabet, MaxLen)
  /\ result = NoResult
  /\ pc = "ready"
  /\ cur = input
  /\ acc = <<>>

IdentifierMainCall ==
  Return("IdentifierMain", Identifier_parse_main(parser, input))

IdentNext == IdentifierCall \/ IdentifierMainCall

IdentSpec == IdentInit /\ [][IdentNext]_vars

(***************************************************************************)
(* The grammars of json.ts and pl0.ts.  The JSON parsers are called on the *)
(* documents below and on every string over JsonAlphabet of length at most *)
(* MaxLen, the PL/0 parsers on every string over Pl0Alphabet of length at  *)
(* most MaxLen and on every comparison of two of the expressions Exprs.    *)
(***************************************************************************)
JsonAlphabet == {"{", "}", "[", "]", "\"", ":", ",", "1"}

\* {"a": 1}
DocA1 == <<"{", "\"", "a", "\"", ":", " ", "1", "}">>
\* {'hello': 'world'}   (README)
DocHello ==
  <<"{", "'", "h", "e", "l", "l", "o", "'", ":", " ",
    "'", "w", "o", "r", "l", "d", "'", "}">>
\* {"a": }
DocMalformed == <<"{", "\"", "a", "\"", ":", " ", "}">>
\* {"a":[1,{"a":[]}]}
DocNested ==
  <<"{", "\"", "a", "\"", ":", "[", "1", ",", "{", "\"", "a", "\"", ":",
    "[", "]", "}", "]", "}">>
\* {"":{"":{}}}
DocObjects ==
  <<"{", "\"", "\"", ":", "{", "\"", "\"", ":", "{", "}", "}", "}">>
\* {"":[[[
DocOpen == <<"{", "\"", "\"", ":", "[", "[", "[">>

\* {"__proto__": 1}
DocProto ==
  <<"{", "\"", "_", "_", "p", "r", "o", "t", "o", "_", "_", "\"", ":", " ",
    "1", "}">>
\* {"__proto__":[1],"a":1}
DocProtoArray ==
  <<"{", "\"", "_", "_", "p", "r", "o", "t", "o", "_", "_", "\"", ":",
    "[", "1", "]", ",", "\"", "a", "\"", ":", "1", "}">>

JsonDocuments ==
  {DocA1, DocHello, DocMalformed, DocNested, DocObjects, DocOpen,
   DocProto, DocProtoArray}

JsonInputs == StringsOver(JsonAlphabet, MaxLen) \cup JsonDocuments

JsonParsers == {JsonObject, PArray}

Pl0Alphabet == {"a", "1", "(", ")", "+", "*", "<", " "}

\* expressions that ExprParser accepts to their end
Exprs ==
  {<<"1">>, <<"a">>, <<"a", "+", "1">>, <<"(", "1", ")">>, <<"-", "a">>,
   <<"1", "*", "a">>, <<"(", "(", "a", ")", ")">>}

\* the operators ConditionParser lists
CompareOps ==
  {<<"=">>, <<"#">>, <<"<">>, <<"<", "=">>, <<">">>, <<">", "=">>}

Comparisons == {e1 \o op \o e2 : e1 \in Exprs, op \in CompareOps, e2 \in Exprs}

Pl0Inputs == StringsOver(Pl0Alphabet, MaxLen) \cup Exprs \cup Comparisons

Pl0Parsers == {Factor, Term, ExprParser, ConditionParser}

\* the helper classes, called on their own
Helpers ==
  {Inspect(Json_Bool),
   BinaryOp(IntLiteral, Match(<<"<">>)),
   Surrounded(Match(<<"(">>), IntLiteral, Match(<<")">>)),
   SpaceSurrounded(Match(<<"a">>))}

HelperInputs ==
  {<<>>, <<"a">>, <<" ", "a", " ">>, <<"1", "<", "1">>, <<"1", "<">>,
   <<"(", "1", ")">>, <<"(", "1">>, <<"t", "r", "u", "e">>}

GrammarInit ==
  /\ \E call \in (JsonParsers \X JsonInputs) \cup (Pl0Parsers \X Pl0Inputs)
                     \cup (Helpers \X HelperInputs) :
       /\ parser = Warm(call[1], call[2])
       /\ input = call[2]
  /\ result = NoResult
  /\ pc = "ready"
  /\ cur = input
  /\ acc = <<>>

InspectCall == Return("Inspect", Inspect_parse(parser, input))
JsonObjectCall == Return("JsonObject", JsonObject_parse(parser, input))
PArrayCall == Return("PArray", PArray_parse(parser, input))
BinaryOpCall == Return("BinaryOp", BinaryOp_parse(parser, input))
SurroundedCall == Return("Surrounded", Surrounded_parse(parser, input))
SpaceSurroundedCall ==
  Return("SpaceSurrounded", SpaceSurrounded_parse(parser, input))
FactorCall == Return("Factor", Factor_parse(parser, input))
TermCall == Return("Term", Term_parse(parser, input))
ExprParserCall == Return("ExprParser", ExprParser_parse(parser, input))
ConditionParserCall ==
  Return("ConditionParser", ConditionParser_parse(parser, input))

GrammarNext ==
  \/ InspectCall
  \/ JsonObjectCall
  \/ PArrayCall
  \/ BinaryOpCall
  \/ SurroundedCall
  \/ SpaceSurroundedCall
  \/ FactorCall
  \/ TermCall
  \/ ExprParserCall
  \/ ConditionParserCall

GrammarSpec == GrammarInit /\ [][GrammarNext]_vars

TypeOK ==
  /\ pc \in {"ready", "loop", "returned", "thrown"}
  /\ result.state \in {"None", Ok, Error, "Thrown"}

(***************************************************************************)
(* Properties.                                                             *)
(*                                                                         *)
(* A Success record has state Ok and a value; this is the test every       *)
(* combinator but Sequence and Optional applies to the record of a         *)
(* sub-parser.  A parse succeeds when it returns a Success record, and     *)
(* fails when it returns any other record.                                 *)
(***************************************************************************)
Succeeds(r) == r.state = Ok /\ r.value # Undefined

Fails(r) == r.state \in {Ok, Error} /\ ~Succeeds(r)

Returned == pc = "returned"

World == <<"W", "o", "r", "l", "d">>

\* C1: Pred(P, f).parse(s) is the Success record (Ok, P's value, P's
\* remainder) exactly when P succeeds on s and f accepts the value; in every
\* other case, a rejected value included, it is a Failure record: state Error
\* and remainder s.
C1_PredSucceedsOrFails ==
  (Returned /\ parser.tag = "Pred") =>
    LET r == Parse(parser.parser, input)
        accepted == Succeeds(r) /\ ApplyPred(parser.pred_fn, r.value)
    IN  /\ accepted => result = ParseResult(Ok, r.remainder, r.value, Undefined)
        /\ ~accepted => result.state = Error /\ result.remainder = input
        /\ Succeeds(result) <=> accepted

\* C2: every record a combinator returns has, with state Ok, a value and no
\* error, and with state Error, an error and no value.
C2_RecordWellFormed ==
  Returned =>
    /\ result.state = Ok => result.value # Undefined /\ result.error = Undefined
    /\ result.state = Error => result.error # Undefined /\ result.value = Undefined

\* C3: when Pair(P1, P2), P.flat_map(f) or P.pred(f) does not succeed on s,
\* the remainder of its record is s, also when the first parser consumed
\* characters before the later step failed.
C3_FailureKeepsInput ==
  (Returned /\ parser.tag \in {"Pair", "FlatMap", "Pred"} /\ ~Succeeds(result)) =>
    result.remainder = input

\* C4: when P1 succeeds on s with (v1, r1) and P2 succeeds on r1 with
\* (v2, r2), Pair(P1, P2).parse(s) is the Success record with value [v1, v2]
\* and remainder r2, and mapped by g it has value g([v1, v2]) and the same
\* remainder; the Pair of the README on "Hello World" gives ["Hello", " "] and
\* "World", and mapped by _ => ":)" gives ":)" and "World".
C4_PairSucceeds ==
  /\ (Returned /\ parser.tag = "Pair") =>
       LET r1 == Parse(parser.parser1, input)
           r2 == Parse(parser.parser2, r1.remainder)
       IN  (Succeeds(r1) /\ Succeeds(r2)) =>
             result = ParseResult(Ok, r2.remainder, Arr(<<r1.value, r2.value>>), Undefined)
  /\ (Returned /\ parser.tag = "PMap" /\ parser.parser.tag = "Pair") =>
       LET r1 == Parse(parser.parser.parser1, input)
           r2 == Parse(parser.parser.parser2, r1.remainder)
       IN  (Succeeds(r1) /\ Succeeds(r2)) =>
             result = ParseResult(Ok, r2.remainder,
                                  ApplyMap(parser.map_fn, Arr(<<r1.value, r2.value>>)),
                                  Undefined)
  /\ (Returned /\ parser = Pair(Match(Hello), Item) /\ input = HelloWorld) =>
       result = ParseResult(Ok, World, Arr(<<Str(Hello), Str(<<" ">>)>>), Undefined)
  /\ (Returned /\ parser = PMap(Pair(Match(Hello), Item), Smiley) /\ input = HelloWorld) =>
       result = ParseResult(Ok, World, Str(<<":", ")">>), Undefined)

\* C4 witness: the mapped Pair of the README has returned on "Hello World"
\* after both of its parsers consumed input.
C4_Witness ==
  /\ Returned
  /\ parser = PMap(Pair(Match(Hello), Item), Smiley)
  /\ input = HelloWorld
  /\ Succeeds(result)
  /\ Len(result.remainder) < Len(input) - Len(Hello)

\* P returns a record on every input and consumes at least one character
\* whenever it succeeds
ConsumesOnSuccess(p) ==
  \A s \in Inputs :
    LET r == Parse(p, s)
    IN  r.state # "Thrown" /\ (Succeeds(r) => Len(r.remainder) < Len(s))

\* vs are the values of consecutive successes of p from s on, each made on
\* the remainder of the one before, and p fails on rest, where they end
RECURSIVE IsMaximalRun(_, _, _, _)
IsMaximalRun(p, s, vs, rest) ==
  LET r == Parse(p, s)
  IN  IF vs = <<>>
      THEN Fails(r) /\ rest = s
      ELSE Succeeds(r) /\ r.value = Head(vs) /\ IsMaximalRun(p, r.remainder, Tail(vs), rest)

\* C5: for P that consumes on each success, ZeroOrMore(P).parse(s) returns
\* a Success record whose value is the list of the values of the maximal run
\* of consecutive successes of P from s and whose remainder is the input on
\* which P first fails; when P fails on s the list is empty and the remainder s.
C5_ZeroOrMoreMaximalRun ==
  (parser.tag = "ZeroOrMore" /\ ConsumesOnSuccess(parser.parser)) =>
    /\ pc # "thrown"
    /\ Returned =>
         /\ result.state = Ok
         /\ result.error = Undefined
         /\ result.value.t = "array"
         /\ IsMaximalRun(parser.parser, input, result.value.xs, result.remainder)
         /\ Fails(Parse(parser.parser, input)) =>
              result.value = Arr(<<>>) /\ result.remainder = input

\* C5 witness: a run of two or more successes that stops before the end of
\* the input.
C5_Witness ==
  /\ Returned
  /\ parser.tag = "ZeroOrMore"
  /\ ConsumesOnSuccess(parser.parser)
  /\ Len(result.value.xs) >= 2
  /\ result.remainder # <<>>

\* C6: a call of ZeroOrMore(P).parse(s) eventually returns a record, also
\* for P that can succeed without consuming input.
C6_ZeroOrMoreReturns ==
  (parser.tag = "ZeroOrMore" /\ pc = "ready") ~> Returned

\* C7: OneOrMore(P).parse(s) fails exactly when P fails on s, and then with
\* P's error and remainder s; when P succeeds with (v, r) and ZeroOrMore(P)
\* returns (vs, r') on r, it is the Success record with value [v] followed by
\* vs and remainder r'.
C7_OneOrMore ==
  (Returned /\ parser.tag = "OneOrMore") =>
    LET r == Parse(parser.parser, input)
        z == Parse(ZeroOrMore(parser.parser), r.remainder)
    IN  /\ result.state = Error <=> Fails(r)
        /\ Fails(r) => result = ParseResult(Error, input, Undefined, r.error)
        /\ Succeeds(r) =>
             result = ParseResult(Ok, z.remainder, Arr(<<r.value>> \o z.value.xs), Undefined)

\* C7 witness: OneOrMore has returned a list of two or more values, the
\* first from P and the others from ZeroOrMore(P).
C7_Witness ==
  /\ Returned
  /\ parser.tag = "OneOrMore"
  /\ Succeeds(result)
  /\ Len(result.value.xs) >= 2
  /\ result.remainder # <<>>

\* the index of the first branch that succeeds on s, 0 when none does
FirstSuccess(parsers, s) ==
  LET hits == {i \in 1..Len(parsers) : Succeeds(Parse(parsers[i], s))}
  IN  IF hits = {} THEN 0 ELSE CHOOSE i \in hits : \A j \in hits : i <= j

\* C8: Either and FixedEither apply the branches in order to the same s and
\* return the value and remainder of the first branch that succeeds; when no
\* branch succeeds they return the Failure record with remainder s and the
\* generic message, however far a branch advanced; on the same branches the
\* two classes return the same record.
C8_EitherFirstSuccess ==
  (Returned /\ parser.tag \in {"Either", "FixedEither"}) =>
    LET k == FirstSuccess(parser.parsers, input)
        r == Parse(parser.parsers[k], input)
        other == IF parser.tag = "Either" THEN FixedEither(parser.parsers)
                 ELSE Either(parser.parsers)
    IN  /\ k # 0 => result = ParseResult(Ok, r.remainder, r.value, Undefined)
        /\ k = 0 => result = ParseResult(Error, input, Undefined,
                                         Msg("No parser on the either succeed"))
        /\ Parse(other, input) = result

\* C8 witness: every branch has failed, one of them after advancing, and the
\* record returned has the remainder s.
C8_Witness ==
  /\ Returned
  /\ parser.tag \in {"Either", "FixedEither"}
  /\ result.state = Error
  /\ \E i \in 1..Len(parser.parsers) :
       LET r == Parse(parser.parsers[i], input)
       IN  Fails(r) /\ r.remainder # input

\* C9: Optional(P).parse(s) returns state Ok; when P fails on s with
\* remainder s, the value is null and the remainder is s.
C9_OptionalNeverFails ==
  (Returned /\ parser.tag = "Optional") =>
    LET r == Parse(parser.parser, input)
    IN  /\ result.state = Ok
        /\ (Fails(r) /\ r.remainder = input) =>
             result.value = Null /\ result.remainder = input

\* C9 witness: Optional has returned after P failed on a non-empty input.
C9_Witness ==
  /\ Returned
  /\ parser.tag = "Optional"
  /\ input # <<>>
  /\ Parse(parser.parser, input).state = Error
  /\ Parse(parser.parser, input).remainder = input
  /\ result.value = Null

\* what C10 says of Sequence(parsers).parse from the i-th parser on, at
\* position s: Failure at the position where the first failing parser was
\* applied, Success with null at the last remainder when none fails
RECURSIVE SequenceAsStated(_, _, _)
SequenceAsStated(parsers, s, i) ==
  IF i > Len(parsers) THEN [state |-> Ok, remainder |-> s, value |-> Null]
  ELSE LET r == Parse(parsers[i], s)
       IN  IF Succeeds(r) THEN SequenceAsStated(parsers, r.remainder, i + 1)
           ELSE [state |-> Error, remainder |-> s, value |-> Undefined]

\* C10: Sequence(P1..Pn).parse(s) applies the parsers in order, each on the
\* remainder of the one before; it returns Success with value null and the
\* last remainder exactly when every parser succeeded, and otherwise stops at
\* the first that fails and returns Failure with the position reached when
\* that parser was applied.
C10_SequenceStopsAtFirstFailure ==
  (Returned /\ parser.tag = "Sequence") =>
    LET e == SequenceAsStated(parser.parsers, input, 1)
    IN  /\ result.state = e.state
        /\ result.remainder = e.remainder
        /\ result.value = e.value

\* r is what is left of s after a prefix of it was taken off
IsSuffix(r, s) ==
  /\ Len(r) <= Len(s)
  /\ r = SliceFrom(s, Len(s) - Len(r))

\* C11: whenever P.parse(s) returns a record of state Ok, for P any nesting
\* of the core combinators over Match, Item and Identifier, the remainder is
\* a suffix of s, so no longer than s.
C11_RemainderIsSuffix ==
  (Returned /\ result.state = Ok) =>
    /\ IsSuffix(result.remainder, input)
    /\ Len(result.remainder) <= Len(input)

\* C11 witness: an Optional has returned Success after its inner parser
\* failed past the start of the input, with part of the input left.
C11_Witness ==
  /\ Returned
  /\ parser.tag = "Optional"
  /\ Succeeds(result)
  /\ result.remainder # input
  /\ result.remainder # <<>>
  /\ Fails(Parse(parser.parser, input))

\* C16: whenever P.parse(s) succeeds with value v and remainder r,
\* Optional(P).parse(s) is the Success record with exactly v and r, whatever
\* v is (0, "" and false included); the value null takes the place of a
\* value only when P did not succeed.
C16_OptionalKeepsValue ==
  (Returned /\ parser.tag = "Optional") =>
    LET r == Parse(parser.parser, input)
    IN  /\ Succeeds(r) =>
              result = ParseResult(Ok, r.remainder, r.value, Undefined)
        /\ result.value = Null => (~Succeeds(r) \/ r.value = Null)

\* C14: Pair(P1, P2).parse(s) and P1.flat_map(v1 => P2.map(v2 => [v1, v2]))
\* .parse(s) return the same record (state, value and remainder), when both
\* parsers succeed and when P1 or P2 fails.
C14_PairIsFlatMap ==
  (Returned /\ parser.tag = "Pair") =>
    LET m == Parse(FlatMap(parser.parser1, PairWith(parser.parser2)), input)
    IN  /\ result.state = m.state
        /\ result.value = m.value
        /\ result.remainder = m.remainder

\* an ASCII letter; a letter, a digit or a hyphen
IsLetter(ch) ==
  CodePointAt(ch) \in 65..90 \/ CodePointAt(ch) \in 97..122
IsIdentChar(ch) ==
  IsLetter(ch) \/ CodePointAt(ch) \in 48..57 \/ ch = "-"

\* the length of the longest prefix of s made of its first character
\* followed by letters, digits and hyphens
LongestIdent(s) ==
  CHOOSE k \in 1..Len(s) :
    /\ \A i \in 2..k : IsIdentChar(s[i])
    /\ k = Len(s) \/ ~IsIdentChar(s[k + 1])

\* C13: for every s, the empty string included, Identifier.parse(s) of
\* simple.ts and of main.ts returns a record and never throws: Failure with
\* remainder s unless s starts with an ASCII letter, and otherwise Success
\* with the longest prefix of that letter followed by letters, digits and
\* hyphens as value and the rest of s as remainder.
C13_IdentifierNeverThrows ==
  (parser.tag \in {"Identifier", "IdentifierMain"} /\ pc # "ready") =>
    /\ Returned
    /\ IF input # <<>> /\ IsLetter(input[1])
       THEN /\ Succeeds(result)
            /\ result.value = Str(SliceTo(input, LongestIdent(input)))
            /\ result.remainder = SliceFrom(input, LongestIdent(input))
       ELSE /\ result.state = Error
            /\ result.value = Undefined
            /\ result.remainder = input

\* C12: JsonObject.parse on a well-formed object text succeeds with a value
\* that maps every key of the text to its parsed value: {"a": 1} gives the
\* mapping of "a" to 1, {'hello': 'world'} the mapping of hello to "world",
\* {"__proto__": 1} the mapping of "__proto__" to 1; on the malformed
\* {"a": } it returns a Failure record, with no mapping.
C12_JsonObjectParses ==
  (Returned /\ parser.tag = "JsonObject") =>
    /\ input = DocA1 =>
         Succeeds(result) /\ result.value = Obj(<<"a">> :> Num(1))
    /\ input = DocHello =>
         Succeeds(result) /\ result.value = Obj(<<"h", "e", "l", "l", "o">> :> Str(<<"w", "o", "r", "l", "d">>))
    /\ input = DocProto =>
         Succeeds(result) /\ result.value = Obj(<<"_", "_", "p", "r", "o", "t", "o", "_", "_">> :> Num(1))
    /\ input = DocMalformed =>
         result.state = Error /\ result.value = Undefined

\* the syntax tree ExprParser builds for the whole of e
ExprOf(e) == Parse(Warm(ExprParser, e), e).value

\* C17: for every operator op that ConditionParser lists (=, #, <, <=, >, >=)
\* and all expressions e1 and e2 that ExprParser accepts,
\* ConditionParser.parse(e1 op e2) succeeds with the BinCondition of the
\* tree of e1, exactly op, and the tree of e2, and with an empty remainder.
C17_ConditionOperators ==
  (Returned /\ parser.tag = "ConditionParser") =>
    \A e1 \in Exprs, op \in CompareOps, e2 \in Exprs :
      input = e1 \o op \o e2 =>
        /\ Succeeds(result)
        /\ result.value = BinCondition(ExprOf(e1), op, ExprOf(e2))
        /\ result.remainder = <<>>

\* C15: the grammar classes build no parser when they are constructed, only
\* when parse() runs; every call of JsonObject.parse, PArray.parse or
\* ExprParser.parse made from within a call of a class of the same grammar is
\* on a strictly shorter input; so every parse returns, and never more
\* such calls are active inside it, one in the other, than its input has
\* characters.
C15_LazyGrammarsTerminate ==
  (parser.tag \in {"JsonObject", "PArray", "Factor", "Term", "ExprParser"}
     /\ pc # "ready") =>
    /\ Returned
    /\ DOMAIN parser = {"tag", "known"}
    /\ \A c \in Reentries(parser, input) : Len(c.input) < Len(input)
    /\ NestingDepth(parser, input) <= Len(input)

\* C15 witness: JsonObject.parse has returned the mapping of a document in
\* which PArray.parse, JsonObject.parse, PArray.parse and, for the element
\* that is not there, PArray.parse again were entered one inside the other.
C15_Witness ==
  /\ Returned
  /\ parser.tag = "JsonObject"
  /\ input = DocNested
  /\ Succeeds(result)
  /\ NestingDepth(parser, input) = 4

====
